---- MODULE Spec2Model ----
(***************************************************************************)
(* Model of the streaming provider client of mcp_client/server.py          *)
(* (_MCPServerWithClientSession): connect with retry, cached tool listing, *)
(* middleware pipeline, call with reconnect, cleanup.  One caller drives   *)
(* the client; every await of the source is a step of its own, and the     *)
(* coroutine call chain (call_tool -> connect -> cleanup) is the sequence  *)
(* `frames`.  The provider and the transport are the environment: each     *)
(* handshake step, fetch, tool call, middleware step and resource release  *)
(* either succeeds or raises.  (Spec)                                      *)
(*                                                                         *)
(* Two further specifications share the variables: SpecCC lets several     *)
(* tasks call cleanup() on one client concurrently, and SpecA2A is one     *)
(* send_task_async() of the stateless client of a2a.py, its retry loop and *)
(* the outcome it derives from an HTTP response.  SpecPrep is one          *)
(* filtered_prepare_dynamic_tools() of tool_integration.py followed by     *)
(* invocations of the prepared tools; SpecNorm and SpecSign apply the pure *)
(* functions sanitize_tool_name (utils.py) and HMACAuth.sign_request       *)
(* (mcp_client/auth.py) to inputs drawn from bounded sets.                 *)
(* SpecCancel is the streaming client whose caller may cancel the running *)
(* operation at any of its awaits.                                         *)
(***************************************************************************)
EXTENDS Integers, Sequences, FiniteSets, TLC

\* ---------------------------------------------------------------- bounds
MaxRetries == 2
MaxMiddleware == 2
MaxOpen == 2
MaxCallers == 2
MaxA2ARetries == 2
MaxNameLen == 3
MaxParams == 3
MaxServers == 2

\* Tool lists the provider may answer with (the empty list included).
ToolLists == { <<>>, <<"list_pods">>, <<"list_pods", "delete_pod">> }

VARIABLES
    max_retries,        \* self.max_retries
    cache_tools_list,   \* self.cache_tools_list
    middleware,         \* self.middleware, a sequence of step ids
    session,            \* self.session: 0 is None, else the id of the handshake attempt that produced it
    exit_stack,         \* self.exit_stack: entered context managers, oldest first
    cleanup_lock,       \* self._cleanup_lock: TRUE while held
    cache_dirty,        \* self._cache_dirty
    tools_list,         \* self._tools_list: <<>> is None, <<l>> is the list l
    frames,             \* the caller's chain of running coroutines, innermost last
    raised,             \* exception travelling from a finished coroutine to its caller
    result,             \* outcome of the last finished top-level operation
    st,                 \* what the running (or last finished) top-level operation has done
    pre,                \* the client's state when that operation started
    hist,               \* what has happened since the last list_tools()
    cc,                 \* callers that run cleanup() concurrently (SpecCC)
    a2a,                \* one send_task_async() of the stateless client (SpecA2A)
    prep,               \* one filtered_prepare_dynamic_tools() and the tools it prepared (SpecPrep)
    pure                \* one application of a pure function (SpecNorm, SpecSign)

cfg == <<max_retries, cache_tools_list, middleware>>
client == <<session, exit_stack, cleanup_lock, cache_dirty, tools_list>>
vars == <<max_retries, cache_tools_list, middleware, session, exit_stack,
          cleanup_lock, cache_dirty, tools_list, frames, raised, result, st,
          pre, hist, cc, a2a, prep, pure>>
ext == <<cc, a2a, prep, pure>>

\* ------------------------------------------------------- values and errors
Err(t, i) == [type |-> t, id |-> i]
NoErr == Err("None", 0)

Val(k, i, l, a) == [kind |-> k, id |-> i, list |-> l, args |-> a]
NoneVal == Val("None", 0, <<>>, <<>>)

Frame(f, p) == [fn |-> f, pc |-> p, attempt |-> 0, last_exc |-> NoErr,
                args |-> <<>>, i |-> 0, hs |-> 0, exc |-> FALSE,
                cancelled |-> FALSE]

NoResult == [op |-> "none", ok |-> TRUE, value |-> NoneVal, error |-> NoErr]

ZeroStats == [hs |-> 0, hs_fail |-> 0, calls |-> 0, call_fail |-> 0,
              fetches |-> 0, cleanups |-> 0, ct_cleanups |-> 0,
              reconnects |-> 0, mw |-> <<>>, sent |-> <<>>,
              mw_fail |-> 0, last_hs |-> 0, fetched |-> <<>>]

\* ------------------------------------------------------------ helpers
Top == frames[Len(frames)]
Running(f, p) == frames # <<>> /\ Top.fn = f /\ Top.pc = p
SetTop(fr) == [frames EXCEPT ![Len(frames)] = fr]
Pop == SubSeq(frames, 1, Len(frames) - 1)

Transports == { k \in 1..Len(exit_stack) : exit_stack[k].kind = "transport" }
OpenTransports == Cardinality(Transports)
OpenSessions == Cardinality({ k \in 1..Len(exit_stack) : exit_stack[k].kind = "session" })

\* The session object behind the handle has been entered and not exited.
SessionLive == \E k \in 1..Len(exit_stack) :
                  exit_stack[k].kind = "session" /\ exit_stack[k].id = session

\* Identity of a newly entered transport/session pair: the least id that no
\* entered resource and no stored handle carries.
UsedIds == { exit_stack[k].id : k \in 1..Len(exit_stack) } \cup {session}
FreshId == CHOOSE i \in 1..(Len(exit_stack) + 2) :
              i \notin UsedIds /\ \A j \in 1..(i - 1) : j \in UsedIds

\* `if ... and self._tools_list`: None and the empty list are both falsy.
Truthy(tl) == tl # <<>> /\ tl[1] # <<>>

\* The cache test with the dirty flag read the wrong way round.
CacheHit_inverted == cache_tools_list /\ cache_dirty /\ Truthy(tools_list)

\* The cache test of list_tools.
CacheHit == cache_tools_list /\ ~cache_dirty /\ Truthy(tools_list)

\* connect()'s loop written as range(1, self.max_retries).
ConnectHasNext_short(attempt) == attempt + 1 < max_retries

\* connect(): `range(1, self.max_retries + 1)` has another element after
\* `attempt`.
ConnectHasNext(attempt) == attempt + 1 <= max_retries

\* connect(): `if attempt < self.max_retries` after a failed attempt.
ConnectRetryAllowed(attempt) == attempt < max_retries

\* call_tool(): `range(1, self.max_retries + 1)` has another element after
\* `attempt`.
CallHasNext(attempt) == attempt + 1 <= max_retries

\* call_tool()'s retry test written as attempt <= self.max_retries.
CallRetryAllowed_always(attempt) == attempt <= max_retries

\* call_tool(): `if attempt < self.max_retries` after a failed attempt.
CallRetryAllowed(attempt) == attempt < max_retries

\* `raise last_exc`: raising None is a TypeError.
RaiseLast(e) == IF e = NoErr THEN Err("TypeError", 0) ELSE e

\* A middleware step (tool_name, arguments) -> arguments'.
ApplyMiddleware(m, a) == Append(a, m)

Snapshot == [session |-> session, tools_list |-> tools_list,
             cache_dirty |-> cache_dirty,
             live |-> SessionLive, fresh |-> hist.fresh,
             invalidated |-> hist.invalidated,
             reconnected |-> hist.reconnected,
             ever |-> hist.ever,
             after_cleanup |-> (result.op = "cleanup"),
             cancelled |-> (/\ result.error.type = "CancelledError"
                            /\ result.op \in {"connect", "call_tool"})]

\* A coroutine finishes: it leaves the chain, and `e` (NoErr for a normal
\* return) reaches its caller.  The outermost one ends the operation.
Finish(v, e) ==
    /\ frames' = Pop
    /\ raised' = e
    /\ IF Len(frames) = 1
         THEN result' = [op |-> frames[1].fn, ok |-> (e = NoErr),
                         value |-> v, error |-> e]
         ELSE UNCHANGED result

\* The parts of the state that belong to the other specifications, at rest.
Callers == 1..MaxCallers
CCIdle == [pc |-> [c \in Callers |-> "idle"], cur |-> [c \in Callers |-> <<>>],
           exc |-> [c \in Callers |-> FALSE], opened |-> <<>>, released |-> <<>>]
A2AIdle == [pc |-> "idle"]

\* ------------------------------------------------------------------ Init
\* The client as __init__ leaves it.
InitClient ==
    /\ session = 0
    /\ exit_stack = <<>>
    /\ cleanup_lock = FALSE
    /\ cache_dirty = TRUE
    /\ tools_list = <<>>
    /\ frames = <<>>
    /\ raised = NoErr
    /\ result = NoResult
    /\ st = ZeroStats
    /\ pre = [session |-> 0, tools_list |-> <<>>, cache_dirty |-> TRUE,
              live |-> FALSE, fresh |-> FALSE, invalidated |-> 0,
              reconnected |-> FALSE, ever |-> FALSE,
              after_cleanup |-> FALSE, cancelled |-> FALSE]
    /\ hist = [fresh |-> FALSE, invalidated |-> 0, reconnected |-> FALSE,
               cleaned |-> FALSE, ever |-> FALSE]
    /\ cc = CCIdle

Init ==
    /\ max_retries \in 0..MaxRetries
    /\ cache_tools_list \in BOOLEAN
    /\ middleware \in { [k \in 1..n |-> k] : n \in 0..MaxMiddleware }
    /\ InitClient
    /\ a2a = A2AIdle
    /\ prep = [pc |-> "idle"]
    /\ pure = [fn |-> "none"]

\* ------------------------------------------------- starting an operation
Start(f, p) ==
    /\ frames = <<>>
    /\ frames' = <<Frame(f, p)>>
    /\ raised' = NoErr
    /\ result' = NoResult
    /\ st' = ZeroStats
    /\ pre' = Snapshot
    /\ UNCHANGED <<cfg, ext, client, hist>>

start_connect == OpenTransports < MaxOpen /\ Start("connect", "loop")
start_list_tools == frames = <<>> /\ Start("list_tools", "check")
start_call_tool ==
    /\ session # 0 \/ OpenTransports < MaxOpen
    /\ Start("call_tool", "middleware")
start_cleanup == frames = <<>> /\ Start("cleanup", "acquire")

\* invalidate_tools_cache() that forgets to set the flag.
invalidate_tools_cache_noop ==
    /\ frames = <<>>
    /\ result' = [op |-> "invalidate", ok |-> TRUE, value |-> NoneVal, error |-> NoErr]
    /\ pre' = Snapshot
    /\ st' = ZeroStats
    /\ hist' = [hist EXCEPT !.fresh = FALSE, !.invalidated = 1]
    /\ raised' = NoErr
    /\ UNCHANGED <<cfg, ext, client, frames>>

\* invalidate_tools_cache(): synchronous, one step.
invalidate_tools_cache ==
    /\ frames = <<>>
    /\ cache_dirty' = TRUE
    /\ result' = [op |-> "invalidate", ok |-> TRUE, value |-> NoneVal, error |-> NoErr]
    /\ pre' = Snapshot
    /\ st' = ZeroStats
    /\ hist' = [hist EXCEPT !.fresh = FALSE, !.invalidated = 1]
    /\ raised' = NoErr
    /\ UNCHANGED <<cfg, ext, session, exit_stack, cleanup_lock, tools_list, frames>>

\* --------------------------------------------------------------- cleanup
\* A coroutine awaits cleanup(): it resumes at fr.pc when cleanup returns.
CallCleanup(fr) == Append(SetTop(fr), Frame("cleanup", "acquire"))

\* A lock test that lets every caller in.
LockFree_ignored == TRUE

\* `async with self._cleanup_lock`: the caller goes on only when no other
\* caller holds the lock.
LockFree == ~cleanup_lock

\* `async with self._cleanup_lock`
cleanup_acquire ==
    /\ Running("cleanup", "acquire")
    /\ LockFree
    /\ cleanup_lock' = TRUE
    /\ frames' = SetTop([Top EXCEPT !.pc = "aclose"])
    /\ st' = [st EXCEPT !.cleanups = @ + 1]
    /\ hist' = [hist EXCEPT !.fresh = FALSE, !.invalidated = IF @ = 2 THEN 0 ELSE @,
                            !.reconnected = FALSE]
    /\ UNCHANGED <<cfg, ext, session, exit_stack, cache_dirty, tools_list, raised,
                   result, pre>>

\* `await self.exit_stack.aclose()`: the entered context managers are exited
\* newest first; one that raises does not stop the others from being exited,
\* and what it raises replaces the exception aclose() was going to raise.
cleanup_exit ==
    /\ Running("cleanup", "aclose")
    /\ exit_stack # <<>>
    /\ exit_stack' = SubSeq(exit_stack, 1, Len(exit_stack) - 1)
    /\ \E raises \in BOOLEAN :
          frames' = SetTop([Top EXCEPT !.exc = @ \/ raises,
                                       !.cancelled = @ /\ ~raises])
    /\ UNCHANGED <<cfg, ext, session, cleanup_lock, cache_dirty, tools_list, raised,
                   result, st, pre, hist>>

\* aclose() has returned or raised: `self.session = None` runs only when it
\* returned; the exception is logged and swallowed; the lock is released.
cleanup_done ==
    /\ Running("cleanup", "aclose")
    /\ exit_stack = <<>>
    /\ ~Top.cancelled
    /\ session' = IF Top.exc THEN session ELSE 0
    /\ cleanup_lock' = FALSE
    /\ hist' = [hist EXCEPT !.cleaned = hist.ever]
    /\ Finish(NoneVal, NoErr)
    /\ UNCHANGED <<cfg, ext, exit_stack, cache_dirty, tools_list, st, pre>>

cleanup == cleanup_acquire \/ cleanup_exit \/ cleanup_done

\* --------------------------------------------------------------- connect
\* `for attempt in range(1, self.max_retries + 1)`: the next attempt starts.
connect_attempt ==
    /\ Running("connect", "loop")
    /\ ConnectHasNext(Top.attempt)
    /\ frames' = SetTop([Top EXCEPT !.attempt = @ + 1, !.pc = "open", !.hs = FreshId])
    /\ st' = [st EXCEPT !.hs = @ + 1, !.last_hs = FreshId]
    /\ hist' = [hist EXCEPT !.fresh = FALSE, !.invalidated = IF @ = 2 THEN 0 ELSE @]
    /\ UNCHANGED <<cfg, ext, client, raised, result, pre>>

\* The loop is over: `raise last_exc`.
connect_exhausted ==
    /\ Running("connect", "loop")
    /\ ~ConnectHasNext(Top.attempt)
    /\ Finish(NoneVal, RaiseLast(Top.last_exc))
    /\ UNCHANGED <<cfg, ext, client, st, pre, hist>>

\* A failed attempt that is recorded and retried without the cleanup.
HandshakeFails_nocleanup(t) ==
    /\ frames' = SetTop([Top EXCEPT !.last_exc = Err(t, Top.attempt), !.pc = "cleaned"])
    /\ st' = [st EXCEPT !.hs_fail = @ + 1]
    /\ UNCHANGED <<cfg, ext, client, raised, result, pre, hist>>

\* `except Exception as e: last_exc = e; ...; await self.cleanup()`
HandshakeFails(t) ==
    /\ frames' = CallCleanup([Top EXCEPT !.last_exc = Err(t, Top.attempt), !.pc = "cleaned"])
    /\ st' = [st EXCEPT !.hs_fail = @ + 1]
    /\ UNCHANGED <<cfg, ext, client, raised, result, pre, hist>>

\* `await self.exit_stack.enter_async_context(self.create_streams())`
connect_open ==
    /\ Running("connect", "open")
    /\ \/ /\ exit_stack' = Append(exit_stack, [kind |-> "transport", id |-> Top.hs])
          /\ frames' = SetTop([Top EXCEPT !.pc = "session"])
          /\ UNCHANGED <<cfg, ext, session, cleanup_lock, cache_dirty, tools_list,
                         raised, result, st, pre, hist>>
       \/ HandshakeFails("OpenError")

\* `await self.exit_stack.enter_async_context(ClientSession(read, write))`
connect_session ==
    /\ Running("connect", "session")
    /\ \/ /\ exit_stack' = Append(exit_stack, [kind |-> "session", id |-> Top.hs])
          /\ frames' = SetTop([Top EXCEPT !.pc = "initialize"])
          /\ UNCHANGED <<cfg, ext, session, cleanup_lock, cache_dirty, tools_list,
                         raised, result, st, pre, hist>>
       \/ HandshakeFails("SessionError")

\* What connect() does to the client once initialize() has returned.
StoreSession(id) ==
    /\ session' = id
    /\ UNCHANGED <<exit_stack, cleanup_lock, cache_dirty, tools_list>>

\* `await session.initialize(); self.session = session; return`
connect_initialize ==
    /\ Running("connect", "initialize")
    /\ \/ /\ StoreSession(Top.hs)
          /\ hist' = [hist EXCEPT !.ever = TRUE, !.reconnected = hist.cleaned,
                                  !.cleaned = FALSE]
          /\ Finish(NoneVal, NoErr)
          /\ UNCHANGED <<cfg, ext, st, pre>>
       \/ HandshakeFails("InitializeError")

\* cleanup() has returned: `if attempt < self.max_retries: ... sleep`.
connect_cleaned ==
    /\ Running("connect", "cleaned")
    /\ frames' = SetTop([Top EXCEPT !.pc = IF ConnectRetryAllowed(Top.attempt)
                                             THEN "sleep" ELSE "loop"])
    /\ UNCHANGED <<cfg, ext, client, raised, result, st, pre, hist>>

\* `await asyncio.sleep(self.retry_delay)`
connect_sleep ==
    /\ Running("connect", "sleep")
    /\ frames' = SetTop([Top EXCEPT !.pc = "loop"])
    /\ UNCHANGED <<cfg, ext, client, raised, result, st, pre, hist>>

connect == \/ connect_attempt \/ connect_exhausted \/ connect_open
           \/ connect_session \/ connect_initialize \/ connect_cleaned
           \/ connect_sleep

\* ------------------------------------------------------------ list_tools
ListFinished(ok) ==
    hist' = [hist EXCEPT !.fresh = ok,
                         !.invalidated = IF ok /\ hist.invalidated = 1 THEN 2 ELSE 0,
                         !.reconnected = FALSE]

\* list_tools() that resets the dirty flag before it tests the session.
list_tools_uninitialized_reset ==
    /\ Running("list_tools", "check")
    /\ session = 0
    /\ cache_dirty' = FALSE
    /\ Finish(NoneVal, Err("RuntimeError", 0))
    /\ UNCHANGED <<cfg, ext, session, exit_stack, cleanup_lock, tools_list, st, pre, hist>>

\* `if not self.session: raise RuntimeError(...)`
list_tools_uninitialized ==
    /\ Running("list_tools", "check")
    /\ session = 0
    /\ Finish(NoneVal, Err("RuntimeError", 0))
    /\ UNCHANGED <<cfg, ext, client, st, pre, hist>>

\* The cache is trusted: `return self._tools_list`.
list_tools_cached ==
    /\ Running("list_tools", "check")
    /\ session # 0
    /\ CacheHit
    /\ Finish(Val("tools", 0, tools_list[1], <<>>), NoErr)
    /\ ListFinished(TRUE)
    /\ UNCHANGED <<cfg, ext, client, st, pre>>

\* `self._cache_dirty = False`, then the fetch is awaited.
list_tools_miss ==
    /\ Running("list_tools", "check")
    /\ session # 0
    /\ ~CacheHit
    /\ cache_dirty' = FALSE
    /\ frames' = SetTop([Top EXCEPT !.pc = "fetch"])
    /\ UNCHANGED <<cfg, ext, session, exit_stack, cleanup_lock, tools_list, raised,
                   result, st, pre, hist>>

\* `result = await self.session.list_tools(); self._tools_list = result.tools`
list_tools_fetch_ok ==
    /\ Running("list_tools", "fetch")
    /\ SessionLive
    /\ \E tl \in ToolLists :
          /\ tools_list' = <<tl>>
          /\ Finish(Val("tools", 0, tl, <<>>), NoErr)
          /\ st' = [st EXCEPT !.fetches = @ + 1, !.fetched = <<tl>>]
    /\ ListFinished(TRUE)
    /\ UNCHANGED <<cfg, ext, session, exit_stack, cleanup_lock, cache_dirty, pre>>

\* The fetch raises: `except Exception as e: ...; raise`.
list_tools_fetch_fail ==
    /\ Running("list_tools", "fetch")
    /\ st' = [st EXCEPT !.fetches = @ + 1]
    /\ Finish(NoneVal, Err("FetchError", 0))
    /\ ListFinished(FALSE)
    /\ UNCHANGED <<cfg, ext, client, pre>>

list_tools == \/ list_tools_uninitialized \/ list_tools_cached \/ list_tools_miss
              \/ list_tools_fetch_ok \/ list_tools_fetch_fail

\* ------------------------------------------------------------- call_tool
CallConnect(fr) == Append(SetTop(fr), Frame("connect", "loop"))

\* `except Exception as e: last_exc = e; ...; await self.cleanup()`
CallAttemptFails(e) ==
    /\ frames' = CallCleanup([Top EXCEPT !.last_exc = e, !.pc = "cleaned"])
    /\ UNCHANGED <<cfg, ext, client, raised, result, pre, hist>>

\* A middleware loop placed inside the retry loop's try block: a failing
\* step is handled like a failed call attempt.
call_tool_middleware_caught ==
    /\ Running("call_tool", "middleware")
    /\ Top.i < Len(middleware)
    /\ \/ /\ frames' = SetTop([Top EXCEPT !.i = @ + 1,
                 !.args = ApplyMiddleware(middleware[Top.i + 1], Top.args)])
          /\ st' = [st EXCEPT !.mw = Append(@, middleware[Top.i + 1])]
          /\ UNCHANGED <<cfg, ext, client, raised, result, pre, hist>>
       \/ /\ CallAttemptFails(Err("MiddlewareError", middleware[Top.i + 1]))
          /\ st' = [st EXCEPT !.mw = Append(@, middleware[Top.i + 1]),
                              !.mw_fail = @ + 1, !.ct_cleanups = @ + 1]

\* `processed_args = await middleware(tool_name, processed_args)`
call_tool_middleware ==
    /\ Running("call_tool", "middleware")
    /\ Top.i < Len(middleware)
    /\ \/ /\ frames' = SetTop([Top EXCEPT !.i = @ + 1,
                 !.args = ApplyMiddleware(middleware[Top.i + 1], Top.args)])
          /\ st' = [st EXCEPT !.mw = Append(@, middleware[Top.i + 1])]
          /\ UNCHANGED <<raised, result>>
       \/ /\ Finish(NoneVal, Err("MiddlewareError", middleware[Top.i + 1]))
          /\ st' = [st EXCEPT !.mw = Append(@, middleware[Top.i + 1]),
                              !.mw_fail = @ + 1]
    /\ UNCHANGED <<cfg, ext, client, pre, hist>>

\* All middleware has run: `last_exc = None`, the retry loop is entered.
call_tool_begin ==
    /\ Running("call_tool", "middleware")
    /\ Top.i = Len(middleware)
    /\ frames' = SetTop([Top EXCEPT !.pc = "loop"])
    /\ UNCHANGED <<cfg, ext, client, raised, result, st, pre, hist>>

\* A retry loop without the lazy connect: the call is attempted on whatever
\* self.session holds.
call_tool_attempt_noconnect ==
    /\ Running("call_tool", "loop")
    /\ CallHasNext(Top.attempt)
    /\ frames' = SetTop([Top EXCEPT !.attempt = @ + 1, !.pc = "call"])
    /\ UNCHANGED <<cfg, ext, client, raised, result, st, pre, hist>>

\* The next attempt starts: `if not self.session: await self.connect()`.
call_tool_attempt ==
    /\ Running("call_tool", "loop")
    /\ CallHasNext(Top.attempt)
    /\ frames' = IF session = 0
                   THEN CallConnect([Top EXCEPT !.attempt = @ + 1, !.pc = "connected"])
                   ELSE SetTop([Top EXCEPT !.attempt = @ + 1, !.pc = "call"])
    /\ UNCHANGED <<cfg, ext, client, raised, result, st, pre, hist>>

\* The loop ends without an attempt having returned or raised: the
\* coroutine falls off its end and returns None.
call_tool_fallthrough ==
    /\ Running("call_tool", "loop")
    /\ ~CallHasNext(Top.attempt)
    /\ Finish(NoneVal, NoErr)
    /\ UNCHANGED <<cfg, ext, client, st, pre, hist>>

\* The connect() awaited inside the try has returned or raised.
call_tool_connected ==
    /\ Running("call_tool", "connected")
    /\ IF raised = NoErr
         THEN /\ frames' = SetTop([Top EXCEPT !.pc = "call"])
              /\ UNCHANGED <<cfg, ext, client, raised, result, st, pre, hist>>
         ELSE /\ CallAttemptFails(raised)
              /\ st' = [st EXCEPT !.ct_cleanups = @ + 1]

\* `return await self.session.call_tool(tool_name, processed_args)`
call_tool_invoke ==
    /\ Running("call_tool", "call")
    /\ \/ /\ SessionLive
          /\ Finish(Val("call", st.calls + 1, <<>>, Top.args), NoErr)
          /\ st' = [st EXCEPT !.calls = @ + 1, !.sent = Append(@, Top.args)]
          /\ UNCHANGED <<cfg, ext, client, pre, hist>>
       \/ /\ CallAttemptFails(Err("CallError", st.calls + 1))
          /\ st' = [st EXCEPT !.calls = @ + 1, !.sent = Append(@, Top.args),
                              !.call_fail = @ + 1, !.ct_cleanups = @ + 1]

\* cleanup() has returned: retry after a sleep, or `raise last_exc`.
call_tool_cleaned ==
    /\ Running("call_tool", "cleaned")
    /\ IF CallRetryAllowed(Top.attempt)
         THEN /\ frames' = SetTop([Top EXCEPT !.pc = "sleep"])
              /\ UNCHANGED <<raised, result>>
         ELSE Finish(NoneVal, Top.last_exc)
    /\ UNCHANGED <<cfg, ext, client, st, pre, hist>>

\* `await asyncio.sleep(self.retry_delay); await self.connect()`
call_tool_sleep ==
    /\ Running("call_tool", "sleep")
    /\ frames' = CallConnect([Top EXCEPT !.pc = "reconnected"])
    /\ st' = [st EXCEPT !.reconnects = @ + 1]
    /\ UNCHANGED <<cfg, ext, client, raised, result, pre, hist>>

\* A retry that starts over at the middleware loop.
call_tool_reconnected_rerun ==
    /\ Running("call_tool", "reconnected")
    /\ IF raised = NoErr
         THEN /\ frames' = SetTop([Top EXCEPT !.pc = "middleware", !.i = 0])
              /\ UNCHANGED <<raised, result>>
         ELSE Finish(NoneVal, raised)
    /\ UNCHANGED <<cfg, ext, client, st, pre, hist>>

\* A reconnect whose failure is handled like a failed call attempt.
call_tool_reconnected_caught ==
    /\ Running("call_tool", "reconnected")
    /\ frames' = SetTop([Top EXCEPT !.pc = "loop",
                            !.last_exc = IF raised = NoErr THEN @ ELSE raised])
    /\ UNCHANGED <<cfg, ext, client, raised, result, st, pre, hist>>

\* The reconnect has returned (next attempt) or raised (out of the handler).
call_tool_reconnected ==
    /\ Running("call_tool", "reconnected")
    /\ IF raised = NoErr
         THEN /\ frames' = SetTop([Top EXCEPT !.pc = "loop"])
              /\ UNCHANGED <<raised, result>>
         ELSE Finish(NoneVal, raised)
    /\ UNCHANGED <<cfg, ext, client, st, pre, hist>>

call_tool == \/ call_tool_middleware \/ call_tool_begin \/ call_tool_attempt
             \/ call_tool_fallthrough \/ call_tool_connected \/ call_tool_invoke
             \/ call_tool_cleaned \/ call_tool_sleep \/ call_tool_reconnected

\* ------------------------------------------------------------------ Next
Next == \/ start_connect \/ start_list_tools \/ start_call_tool \/ start_cleanup
        \/ invalidate_tools_cache
        \/ connect \/ list_tools \/ call_tool \/ cleanup

Spec == Init /\ [][Next]_vars

TypeOK ==
    /\ max_retries \in 0..MaxRetries
    /\ session \in Nat
    /\ cleanup_lock \in BOOLEAN
    /\ cache_dirty \in BOOLEAN
    /\ Len(tools_list) <= 1

\* ==================================================================
\* Properties
\* ==================================================================
Done(op) == frames = <<>> /\ result.op = op

\* C1: at most one transport/session pair is open for the provider at any
\* time, also when connect() is invoked on a client that is Connected.
C1_AtMostOneTransport == OpenTransports <= 1 /\ OpenSessions <= 1

\* C2: with a handshake that fails N times and then succeeds and
\* max_retries >= N+1, connect() succeeds after exactly N+1 handshake
\* attempts, and the session handle of the successful attempt is stored
\* (connect() never gives up while fewer than max_retries attempts failed).
C2_ConnectRetrySucceeds ==
    Done("connect") =>
        IF result.ok
          THEN /\ st.hs = st.hs_fail + 1
               /\ st.hs <= max_retries
               /\ session = st.last_hs
               /\ SessionLive
               /\ exit_stack[Len(exit_stack)] = [kind |-> "session", id |-> st.last_hs]
               /\ exit_stack[Len(exit_stack) - 1] = [kind |-> "transport", id |-> st.last_hs]
          ELSE st.hs_fail >= max_retries

C2_Witness ==
    /\ Done("connect") /\ result.ok
    /\ st.hs_fail = 1 /\ st.hs = 2 /\ max_retries = 2
    /\ session = st.last_hs

\* C3: when the handshake fails max_retries times in a row, connect() fails
\* after exactly max_retries attempts, for every max_retries >= 0, with a
\* ConnectionError that carries the error of the last attempt.
C3_ExhaustedIsConnectionError ==
    (Done("connect") /\ ~result.ok) =>
        /\ st.hs = max_retries
        /\ result.error.type = "ConnectionError"
        /\ result.error.id = max_retries

\* C4: (max_retries >= 1, every handshake inside the call succeeds) when
\* the underlying call fails on every attempt, call_tool() makes exactly
\* max_retries call attempts, cleans up after each of them, reconnects
\* exactly max_retries - 1 times and fails with the error of the last call
\* attempt; when it fails K < max_retries times and then succeeds,
\* call_tool() returns that attempt's result after exactly K+1 attempts.
C4_CallToolRetry ==
    (Done("call_tool") /\ max_retries >= 1 /\ st.hs_fail = 0 /\ st.mw_fail = 0) =>
        IF result.ok
          THEN /\ st.calls = st.call_fail + 1
               /\ st.call_fail < max_retries
               /\ result.value.kind = "call"
               /\ result.value.id = st.calls
               /\ st.ct_cleanups = st.call_fail
               /\ st.reconnects = st.call_fail
          ELSE /\ st.calls = max_retries
               /\ st.call_fail = max_retries
               /\ st.ct_cleanups = max_retries
               /\ st.cleanups = max_retries
               /\ st.reconnects = max_retries - 1
               /\ result.error = Err("CallError", max_retries)

C4_Witness ==
    /\ Done("call_tool") /\ ~result.ok /\ max_retries = 2 /\ st.hs_fail = 0
    /\ st.calls = 2 /\ st.reconnects = 1 /\ st.ct_cleanups = 2
    /\ result.error = Err("CallError", 2)

\* C5: a middleware step that fails aborts call_tool() with the step's
\* error: no later step runs, no call is attempted, nothing is cleaned up
\* or reconnected, and session, cached list and dirty flag are unchanged.
C5_MiddlewareFailureAborts ==
    (Done("call_tool") /\ st.mw_fail > 0) =>
        /\ ~result.ok
        /\ result.error = Err("MiddlewareError", st.mw[Len(st.mw)])
        /\ st.mw = SubSeq(middleware, 1, Len(st.mw))
        /\ st.calls = 0 /\ st.hs = 0
        /\ st.cleanups = 0 /\ st.reconnects = 0
        /\ session = pre.session
        /\ tools_list = pre.tools_list
        /\ cache_dirty = pre.cache_dirty

C5_Witness ==
    /\ Done("call_tool") /\ result.error = Err("MiddlewareError", 1)
    /\ Len(middleware) = 2 /\ st.mw = <<1>>
    /\ pre.session # 0 /\ session = pre.session /\ st.calls = 0

\* C6 as stated: with caching enabled, directly after a list_tools() that
\* succeeded, whatever list it returned, a second list_tools() fetches
\* nothing and returns the same list.
C6_SecondListNoFetch_AnyList ==
    (Done("list_tools") /\ cache_tools_list /\ pre.fresh) =>
        /\ st.fetches = 0
        /\ result.ok
        /\ result.value.list = pre.tools_list[1]

\* C6 (amended): with caching enabled, directly after a list_tools() that
\* succeeded with a non-empty list, a second list_tools() fetches nothing
\* and returns the same list.
C6_SecondListNoFetch ==
    (Done("list_tools") /\ cache_tools_list /\ pre.fresh /\ Truthy(pre.tools_list)) =>
        /\ st.fetches = 0
        /\ result.ok
        /\ result.value.list = pre.tools_list[1]
        /\ tools_list = pre.tools_list

C6_Witness ==
    /\ Done("list_tools") /\ cache_tools_list /\ pre.fresh
    /\ pre.tools_list = << <<"list_pods", "delete_pod">> >>
    /\ st.fetches = 0 /\ result.value.list = <<"list_pods", "delete_pod">>

\* C7: after invalidate_tools_cache() on a Connected client the next
\* list_tools() performs exactly one fetch and returns the list it fetched;
\* the call after that, with caching enabled and a non-empty list,
\* performs none.
C7_InvalidateForcesOneFetch ==
    /\ (Done("list_tools") /\ pre.invalidated = 1 /\ pre.session # 0) =>
          /\ st.fetches = 1
          /\ result.ok => /\ st.fetched # <<>>
                          /\ result.value.list = st.fetched[1]
                          /\ tools_list = st.fetched
    /\ (Done("list_tools") /\ pre.invalidated = 2 /\ cache_tools_list
          /\ Truthy(pre.tools_list)) =>
          /\ st.fetches = 0
          /\ result.value.list = pre.tools_list[1]

C7_Witness ==
    /\ Done("list_tools") /\ pre.invalidated = 1 /\ cache_tools_list
    /\ pre.tools_list = << <<"list_pods">> >> /\ pre.cache_dirty
    /\ result.ok /\ st.fetches = 1
    /\ result.value.list = <<"list_pods", "delete_pod">>

\* C8: when the fetch inside list_tools() fails the cache stays marked
\* dirty, so that the next list_tools() fetches again.
C8_FailedFetchStaysDirty ==
    (Done("list_tools") /\ result.error.type = "FetchError") => cache_dirty

\* C9: the first list_tools() after a reconnect (cleanup followed by a
\* successful connect) performs a fetch.
C9_ReconnectRefetches ==
    (Done("list_tools") /\ pre.reconnected /\ pre.session # 0) => st.fetches >= 1

\* C10: list_tools() on a client that holds no session fails with the
\* not-initialized error, fetches nothing and leaves the cached list and
\* the dirty flag unchanged.
C10_ListToolsNotInitialized ==
    (Done("list_tools") /\ pre.session = 0) =>
        /\ ~result.ok
        /\ result.error = Err("RuntimeError", 0)
        /\ st.fetches = 0
        /\ tools_list = pre.tools_list
        /\ cache_dirty = pre.cache_dirty
        /\ session = 0

C10_Witness ==
    /\ Done("list_tools") /\ pre.session = 0
    /\ result.error = Err("RuntimeError", 0)
    /\ cache_tools_list /\ ~pre.cache_dirty /\ Truthy(pre.tools_list)
    /\ tools_list = pre.tools_list /\ ~cache_dirty

\* C11 as stated: call_tool() on a client on which connect() was never
\* called fails with the not-initialized error and performs no handshake
\* and no underlying tool call (read here for calls whose middleware passed
\* and whose retry loop has an attempt, max_retries >= 1).
C11_CallToolNotInitialized ==
    (Done("call_tool") /\ ~pre.ever /\ pre.session = 0 /\ st.mw_fail = 0
                       /\ max_retries >= 1) =>
        /\ ~result.ok
        /\ result.error = Err("RuntimeError", 0)
        /\ st.hs = 0
        /\ st.calls = 0

\* The errors of the three handshake steps.
HandshakeErrors == {"OpenError", "SessionError", "InitializeError"}

\* C11 (amended): call_tool() on a client that holds no session never fails
\* with the not-initialized error; its first attempt (there is one when
\* max_retries >= 1 and no middleware step failed) awaits connect() itself,
\* so at least one handshake is performed, and an underlying tool call is
\* made only after a handshake of this call_tool() has succeeded.  A
\* failure of that connect() is handled like a failed call attempt; when
\* call_tool() fails in the end, its error is the error of its last call
\* attempt or the error of the last handshake attempt of a connect(), and
\* the latter, with every handshake failed, when no call was ever made.
C11_CallToolAutoConnects ==
    (Done("call_tool") /\ pre.session = 0) =>
        /\ result.error.type # "RuntimeError"
        /\ (max_retries >= 1 /\ st.mw_fail = 0) => st.hs >= 1
        /\ st.calls >= 1 => st.hs > st.hs_fail
        /\ result.ok /\ max_retries >= 1 => session # 0 /\ SessionLive
        /\ (~result.ok /\ max_retries >= 1 /\ st.mw_fail = 0) =>
              /\ \/ result.error = Err("CallError", st.calls) /\ st.calls >= 1
                 \/ /\ result.error.type \in HandshakeErrors
                    /\ result.error.id = max_retries
              /\ st.calls = 0 =>
                    /\ result.error.type \in HandshakeErrors
                    /\ st.hs_fail = st.hs
                    /\ st.cleanups >= 1

\* max_retries = 2, no session: the connect() of the first attempt fails
\* in both of its handshakes, the reconnect succeeds, and the second
\* attempt makes the call, which returns.
C11_Witness ==
    /\ Done("call_tool") /\ ~pre.ever /\ pre.session = 0
    /\ max_retries = 2
    /\ result.ok /\ result.value.kind = "call"
    /\ st.hs = 3 /\ st.hs_fail = 2 /\ st.reconnects = 1
    /\ st.calls = 1 /\ session # 0

\* C12: cleanup() never raises and leaves no transport or session open, and
\* a second cleanup() directly after the first finds nothing to release and
\* changes nothing.
C12_CleanupIdempotent ==
    /\ Done("cleanup") => result.ok /\ exit_stack = <<>> /\ ~cleanup_lock
    /\ (frames # <<>> /\ frames[1].fn = "cleanup" /\ pre.after_cleanup) =>
          exit_stack = <<>>
    /\ (Done("cleanup") /\ pre.after_cleanup) =>
          /\ session = pre.session
          /\ tools_list = pre.tools_list
          /\ cache_dirty = pre.cache_dirty

\* ==================================================================
\* Concurrent cleanup() calls (SpecCC)
\* ==================================================================
\* The client is first driven by one caller through connect() (whose failed
\* attempts run cleanup() themselves); then MaxCallers tasks each call
\* cleanup() once and interleave at every await.  AsyncExitStack.aclose()
\* takes a context manager off the stack and then awaits its __aexit__, so
\* releasing a resource is two steps (cc_pop, cc_exit).
CCNotStarted == \A c \in Callers : cc.pc[c] = "idle"
CCAllDone == \A c \in Callers : cc.pc[c] = "done"
CCInside == { c \in Callers : cc.pc[c] \in {"aclose", "exit"} }

cc_setup ==
    /\ CCNotStarted
    /\ start_connect \/ connect \/ cleanup

\* A task calls cleanup().
cc_start(c) ==
    /\ frames = <<>>
    /\ cc.pc[c] = "idle"
    /\ cc' = [cc EXCEPT !.pc[c] = "acquire",
                        !.opened = IF CCNotStarted THEN exit_stack ELSE @]
    /\ UNCHANGED <<cfg, a2a, prep, pure, client, frames, raised, result, st, pre, hist>>

\* `async with self._cleanup_lock`
cc_acquire(c) ==
    /\ cc.pc[c] = "acquire"
    /\ LockFree
    /\ cleanup_lock' = TRUE
    /\ cc' = [cc EXCEPT !.pc[c] = "aclose"]
    /\ UNCHANGED <<cfg, a2a, prep, pure, session, exit_stack, cache_dirty, tools_list,
                   frames, raised, result, st, pre, hist>>

\* aclose() takes the newest entered context manager off the stack.
cc_pop(c) ==
    /\ cc.pc[c] = "aclose"
    /\ exit_stack # <<>>
    /\ exit_stack' = SubSeq(exit_stack, 1, Len(exit_stack) - 1)
    /\ cc' = [cc EXCEPT !.pc[c] = "exit", !.cur[c] = <<exit_stack[Len(exit_stack)]>>]
    /\ UNCHANGED <<cfg, a2a, prep, pure, session, cleanup_lock, cache_dirty, tools_list,
                   frames, raised, result, st, pre, hist>>

\* Its __aexit__ is awaited: the resource is released, and the release may
\* raise.
cc_exit(c) ==
    /\ cc.pc[c] = "exit"
    /\ \E raises \in BOOLEAN :
          cc' = [cc EXCEPT !.pc[c] = "aclose", !.cur[c] = <<>>,
                           !.exc[c] = @ \/ raises,
                           !.released = Append(@, cc.cur[c][1])]
    /\ UNCHANGED <<cfg, a2a, prep, pure, client, frames, raised, result, st, pre, hist>>

\* aclose() has returned or raised; `self.session = None` when it returned;
\* the lock is released.
cc_done(c) ==
    /\ cc.pc[c] = "aclose"
    /\ exit_stack = <<>>
    /\ session' = IF cc.exc[c] THEN session ELSE 0
    /\ cleanup_lock' = FALSE
    /\ cc' = [cc EXCEPT !.pc[c] = "done"]
    /\ UNCHANGED <<cfg, a2a, prep, pure, exit_stack, cache_dirty, tools_list,
                   frames, raised, result, st, pre, hist>>

cc_cleanup == \E c \in Callers :
                 cc_start(c) \/ cc_acquire(c) \/ cc_pop(c) \/ cc_exit(c) \/ cc_done(c)

NextCC == cc_setup \/ cc_cleanup

SpecCC == Init /\ [][NextCC]_vars

\* C13: when two or more cleanup() calls run concurrently, at most one of
\* them is inside the teardown at a time, no resource is released twice, and
\* when all have returned every resource that was open has been released
\* exactly once.
C13_ConcurrentCleanup ==
    /\ Cardinality(CCInside) <= 1
    /\ \A i, j \in 1..Len(cc.released) :
          cc.released[i] = cc.released[j] => i = j
    /\ \A i \in 1..Len(cc.released) :
          \E k \in 1..Len(cc.opened) : cc.opened[k] = cc.released[i]
    /\ CCAllDone =>
          /\ exit_stack = <<>>
          /\ ~cleanup_lock
          /\ Len(cc.released) = Len(cc.opened)

C13_Witness ==
    /\ CCAllDone
    /\ Len(cc.opened) >= 2
    /\ Len(cc.released) = Len(cc.opened)
    /\ exit_stack = <<>>

\* ==================================================================
\* The stateless client: A2AServerConfig.send_task_async (SpecA2A)
\* ==================================================================
\* JSON values.  A key that may be absent holds <<>> (absent) or <<v>>;
\* a string is the sequence of its characters, so that += is \o.
Get(o, d) == IF o = <<>> THEN d ELSE o[1]

HttpOk == 200

Part(k, t) == [kind |-> k, text |-> t]
TextPart(t) == Part("text", <<t>>)

\* Part lists of an artifact or message: text parts ("h", "i", the empty
\* string, a text part without a "text" key) and non-text parts (with and
\* without a "text" key), alone and mixed.
PartLists ==
    { <<>>,
      <<TextPart(<<"h">>)>>,
      <<TextPart(<<"h">>), TextPart(<<"i">>)>>,
      <<TextPart(<<"i">>), TextPart(<<"h">>)>>,
      <<TextPart(<<>>)>>,
      <<Part("text", <<>>)>>,
      <<Part("data", <<>>)>>,
      <<Part("data", <<<<"d">>>>)>>,
      <<Part("data", <<>>), TextPart(<<"h">>)>>,
      <<TextPart(<<"h">>), Part("data", <<<<"d">>>>), TextPart(<<"i">>)>> }

\* "parts" absent, or present with one of the lists.
OptParts == { <<>> } \cup { <<p>> : p \in PartLists }

Artifact(op) == [parts |-> op]
Message(r, op) == [role |-> r, parts |-> op]

\* "artifacts": absent, empty, one artifact, or two of which the second
\* carries the text "z".
ArtifactLists ==
    { <<>> } \cup { <<Artifact(op)>> : op \in OptParts }
             \cup { <<Artifact(op), Artifact(<<<<TextPart(<<"z">>)>>>>)>> : op \in OptParts }

\* "history": absent, empty, one agent message, an agent message followed
\* by a user message, or an older agent message ("o") before a newer one.
Histories ==
    { <<>> } \cup { <<Message("agent", op)>> : op \in OptParts }
             \cup { <<Message("agent", op), Message("user", <<<<TextPart(<<"u">>)>>>>)>> : op \in OptParts }
             \cup { <<Message("agent", <<<<TextPart(<<"o">>)>>>>), Message("agent", op)>> : op \in OptParts }

\* status.message: absent, a plain string, or an object with or without
\* "parts".
NoMessage == [t |-> "absent", s |-> <<>>, parts |-> <<>>]
StatusMessages ==
    { NoMessage, [t |-> "str", s |-> <<"e">>, parts |-> <<>>] }
      \cup { [t |-> "dict", s |-> <<>>, parts |-> op] : op \in OptParts }

Status(state, msg) == [state |-> state, message |-> msg]
\* `{}`
EmptyStatus == Status(<<>>, NoMessage)

Result(status, artifacts, history) ==
    [status |-> status, artifacts |-> artifacts, history |-> history]

CompletedResults ==
    { Result(<<Status(<<"completed">>, NoMessage)>>, oa, oh) :
        oa \in { <<>> } \cup { <<a>> : a \in ArtifactLists },
        oh \in { <<>> } \cup { <<h>> : h \in Histories } }

FailedResults ==
    { Result(<<Status(<<"failed">>, m)>>, <<>>, <<>>) : m \in StatusMessages }

OtherResults ==
    { Result(<<Status(<<s>>, NoMessage)>>, <<>>, <<>>) :
        s \in {"pending", "running", "cancelled", "submitted"} }
      \cup { Result(<<EmptyStatus>>, <<>>, <<>>),
             Result(<<>>, <<>>, <<>>),
             Result(<<>>, <<<<Artifact(<<<<TextPart(<<"h">>)>>>>)>>>>, <<>>) }

\* An HTTP response: status code, whether the body parses as JSON, and the
\* "error" and "result" members of the envelope.
Response(code, json, error, res) ==
    [status_code |-> code, json |-> json, error |-> error, result |-> res]

JsonRpcErrors == { [message |-> <<>>], [message |-> <<<<"m">>>>] }

Responses ==
    { Response(HttpOk, TRUE, <<>>, <<r>>) :
        r \in CompletedResults \cup FailedResults \cup OtherResults }
      \cup { Response(HttpOk, TRUE, <<>>, <<>>) }
      \cup { Response(HttpOk, TRUE, <<e>>, res) :
               e \in JsonRpcErrors,
               res \in { <<>>, <<Result(<<Status(<<"completed">>, NoMessage)>>,
                                        <<<<Artifact(<<<<TextPart(<<"h">>)>>>>)>>>>, <<>>)>> } }
      \cup { Response(HttpOk, FALSE, <<>>, <<>>) }
      \cup { Response(c, j, <<>>, <<>>) : c \in {404, 500}, j \in BOOLEAN }

\* What send_task_async ends with: a returned string or a raised error.  An
\* f-string is kept as its fixed prefix `tag` and what is formatted into
\* it: a text, the raw status dict, or the number of attempts.
Outcome(k, tag, text, status, n) ==
    [kind |-> k, tag |-> tag, text |-> text, status |-> status, n |-> n]
Return(text) == Outcome("return", "", text, <<>>, 0)
A2ATaskError(tag, text, status, n) == Outcome("A2ATaskError", tag, text, status, n)
A2AConnectionError(tag, n) == Outcome("A2AConnectionError", tag, <<>>, <<>>, n)

\* The two fixed replies, each kept as one symbol.
NoTextContent == <<"No text content in response">>
NoResponseFound == <<"Task completed but no response found">>

\* A part test that forgets the kind.
IsTextPart_anykind(part) == part.text # <<>>

\* `part.get("kind") == "text" and "text" in part`
IsTextPart(part) == part.kind = "text" /\ part.text # <<>>

\* `for part in parts: if ...: agent_reply_text += part["text"]`
RECURSIVE ConcatText(_)
ConcatText(parts) ==
    IF parts = <<>> THEN <<>>
    ELSE (IF IsTextPart(Head(parts)) THEN Head(parts).text[1] ELSE <<>>)
           \o ConcatText(Tail(parts))

\* `agent_reply_text if agent_reply_text else "No text content in response"`
ExtractText(parts) ==
    IF ConcatText(parts) # <<>> THEN ConcatText(parts) ELSE NoTextContent

\* Lines 191-201 on the "result" member: the reply taken from the first
\* artifact, <<>> when the code goes on to the history.
ArtifactReply(res) ==
    LET artifacts == Get(res.artifacts, <<>>)
        parts == Get(artifacts[1].parts, <<>>)
    IN  IF artifacts # <<>> /\ parts # <<>> THEN <<ExtractText(parts)>> ELSE <<>>

\* Lines 205-214: `for msg in reversed(history)`, from index i downwards.
RECURSIVE ScanHistory(_, _)
ScanHistory(history, i) ==
    IF i = 0 THEN <<>>
    ELSE IF history[i].role = "agent" /\ Get(history[i].parts, <<>>) # <<>>
           THEN <<ExtractText(history[i].parts[1])>>
           ELSE ScanHistory(history, i - 1)

HistoryReply(res) ==
    LET history == Get(res.history, <<>>)
    IN  ScanHistory(history, Len(history))

\* Lines 189-216.
CompletedOutcome(res) ==
    IF ArtifactReply(res) # <<>> THEN Return(ArtifactReply(res)[1])
    ELSE IF HistoryReply(res) # <<>> THEN Return(HistoryReply(res)[1])
    ELSE Return(NoResponseFound)

\* A failed task reported as a normal return.
FailedOutcome_returned(status) ==
    Outcome("return", "Task failed: ", <<>>, <<status>>, 0)

\* Lines 217-227.
FailedOutcome(status) ==
    LET error_msg == status.message
    IN  IF error_msg.t = "dict" /\ error_msg.parts # <<>> /\ error_msg.parts[1] # <<>>
          THEN A2ATaskError("Task failed: ", ConcatText(error_msg.parts[1]), <<>>, 0)
          ELSE A2ATaskError("Task failed: ", <<>>, <<status>>, 0)

\* Any state other than completed raised as a task error.
IncompleteOutcome_raised(status) ==
    A2ATaskError("Task did not complete. Status: ", <<>>, <<status>>, 0)

\* Line 229.
IncompleteOutcome(status) ==
    Outcome("return", "Task did not complete. Status: ", <<>>, <<status>>, 0)

\* An "error" member that is looked at only when there is no res.
HasError_unless_result(r) == r.error # <<>> /\ r.result = <<>>

\* `if "error" in task_response`
HasError(r) == r.error # <<>>

\* Lines 172-229 and 258-263: what one HTTP response makes of the call.
HandleResponse(r) ==
    IF r.status_code # HttpOk
      THEN A2ATaskError("Task request failed: ", <<>>, <<>>, r.status_code)
    ELSE IF ~r.json
      THEN A2AConnectionError("Invalid JSON response from task endpoint: ", 0)
    ELSE IF HasError(r)
      THEN A2ATaskError("JSON-RPC error: ",
                        Get(r.error[1].message, <<"Unknown error">>), <<>>, 0)
    ELSE LET res == Get(r.result, Result(<<>>, <<>>, <<>>))
             status == Get(res.status, EmptyStatus)
         IN  IF status.state = <<"completed">> THEN CompletedOutcome(res)
             ELSE IF status.state = <<"failed">> THEN FailedOutcome(status)
             ELSE IncompleteOutcome(status)

\* ---------------------------------------------------- the retry loop
NoOutcome == Outcome("none", "", <<>>, <<>>, 0)

\* httpx.TimeoutException, httpx.ConnectError, any other httpx.RequestError
TransientErrors == {"TimeoutException", "ConnectError", "RequestError"}

\* The message of the A2AConnectionError raised when the retries are used up.
ExhaustedTag(e) ==
    CASE e = "TimeoutException" -> "Request timed out after {n} attempts"
      [] e = "ConnectError" -> "Failed to connect to A2A agent after {n} attempts"
      [] e = "RequestError" -> "Network error sending task to A2A agent after {n} attempts"

\* The retry test one attempt short.
A2ARetryAllowed_short(attempt) == attempt + 1 < a2a.max_retries

\* `if attempt < max_retries` in the three transient handlers.
A2ARetryAllowed(attempt) == attempt < a2a.max_retries

\* A delay that grows linearly.
Backoff_linear(attempt) == 2 * attempt

\* `await asyncio.sleep(2 ** attempt)`
Backoff(attempt) == 2 ^ attempt

\* send_task_async(user_text, max_retries = m) is called on a client that
\* the streaming side does not touch.
InitA2A ==
    /\ max_retries = 0
    /\ cache_tools_list = FALSE
    /\ middleware = <<>>
    /\ InitClient
    /\ a2a \in { [pc |-> "post", max_retries |-> m, attempt |-> 0, posts |-> 0,
                  fails |-> 0, sleeps |-> <<>>, last_exception |-> "None",
                  resp |-> <<>>, outcome |-> NoOutcome] :
                 m \in 0..MaxA2ARetries }
    /\ prep = [pc |-> "idle"]
    /\ pure = [fn |-> "none"]

streaming == <<cfg, cc, client, frames, raised, result, st, pre, hist>>

\* `await client.post(...)` raises a transient error: sleep and go round
\* again, or give up with A2AConnectionError naming max_retries + 1 attempts.
a2a_post_fails ==
    /\ a2a.pc = "post"
    /\ \E e \in TransientErrors :
          a2a' = IF A2ARetryAllowed(a2a.attempt)
                   THEN [a2a EXCEPT !.pc = "sleep", !.posts = @ + 1,
                                    !.fails = @ + 1, !.last_exception = e]
                   ELSE [a2a EXCEPT !.pc = "done", !.posts = @ + 1,
                                    !.fails = @ + 1, !.last_exception = e,
                                    !.outcome = A2AConnectionError(ExhaustedTag(e),
                                                                   a2a.max_retries + 1)]
    /\ UNCHANGED <<streaming, prep, pure>>

\* `await asyncio.sleep(2 ** attempt); continue`
a2a_sleep ==
    /\ a2a.pc = "sleep"
    /\ a2a' = [a2a EXCEPT !.pc = "post", !.attempt = @ + 1,
                          !.sleeps = Append(@, Backoff(a2a.attempt))]
    /\ UNCHANGED <<streaming, prep, pure>>

\* A body that does not parse handled like a transient failure while
\* retries are left.
a2a_post_responds_reparse ==
    /\ a2a.pc = "post"
    /\ \E r \in Responses :
          a2a' = IF r.status_code = HttpOk /\ ~r.json /\ A2ARetryAllowed(a2a.attempt)
                   THEN [a2a EXCEPT !.pc = "sleep", !.posts = @ + 1, !.resp = <<r>>]
                   ELSE [a2a EXCEPT !.pc = "done", !.posts = @ + 1, !.resp = <<r>>,
                                    !.outcome = HandleResponse(r)]
    /\ UNCHANGED <<streaming, prep, pure>>

\* A server error (5xx) handled like a transient failure while retries
\* are left.
a2a_post_responds_retry5xx ==
    /\ a2a.pc = "post"
    /\ \E r \in Responses :
          a2a' = IF r.status_code >= 500 /\ A2ARetryAllowed(a2a.attempt)
                   THEN [a2a EXCEPT !.pc = "sleep", !.posts = @ + 1]
                   ELSE [a2a EXCEPT !.pc = "done", !.posts = @ + 1, !.resp = <<r>>,
                                    !.outcome = HandleResponse(r)]
    /\ UNCHANGED <<streaming, prep, pure>>

\* `await client.post(...)` returns a response: the call ends with what the
\* response makes of it; A2ATaskError is re-raised, never retried.
a2a_post_responds ==
    /\ a2a.pc = "post"
    /\ \E r \in Responses :
          a2a' = [a2a EXCEPT !.pc = "done", !.posts = @ + 1, !.resp = <<r>>,
                             !.outcome = HandleResponse(r)]
    /\ UNCHANGED <<streaming, prep, pure>>

NextA2A == a2a_post_fails \/ a2a_sleep \/ a2a_post_responds

SpecA2A == InitA2A /\ [][NextA2A]_vars

A2ADone == a2a.pc = "done"
A2AResponded == A2ADone /\ a2a.resp # <<>>
Resp == a2a.resp[1]
RespResult == Get(Resp.result, Result(<<>>, <<>>, <<>>))
RespStatus == Get(RespResult.status, EmptyStatus)
\* The response is a well-formed envelope without an error member.
RespPlain == A2AResponded /\ Resp.status_code = HttpOk /\ Resp.json /\ Resp.error = <<>>

\* The retries are used up: the call ended without a response.
A2AExhausted == A2ADone /\ a2a.resp = <<>>
RespCompleted == RespPlain /\ RespStatus.state = <<"completed">>
RespFailed == RespPlain /\ RespStatus.state = <<"failed">>

\* The text of the text-typed parts of a part list, in order, read off the
\* list from its end.
RECURSIVE JoinTexts(_)
JoinTexts(parts) ==
    IF parts = <<>> THEN <<>>
    ELSE LET n == Len(parts)
         IN  JoinTexts(SubSeq(parts, 1, n - 1))
               \o (IF parts[n].kind = "text" THEN Get(parts[n].text, <<>>) ELSE <<>>)

RECURSIVE SumSeq(_)
SumSeq(q) == IF q = <<>> THEN 0 ELSE Head(q) + SumSeq(Tail(q))

\* The parts of the first artifact of the response (none: the empty list).
FirstArtifactParts ==
    LET artifacts == Get(RespResult.artifacts, <<>>)
    IN  IF artifacts = <<>> THEN <<>> ELSE Get(artifacts[1].parts, <<>>)

\* The parts of the most recent agent-role message of the history (none:
\* the empty list).
LastAgentParts ==
    LET history == Get(RespResult.history, <<>>)
        agents == { k \in 1..Len(history) : history[k].role = "agent" }
    IN  IF agents = {} THEN <<>>
        ELSE Get(history[CHOOSE k \in agents : \A j \in agents : j <= k].parts, <<>>)

\* C14: with a transport that fails transiently K times and then answers,
\* send_task_async(max_retries = M) issues exactly K+1 POSTs and ends with
\* the outcome of that response when K <= M; when K > M it issues exactly
\* M+1 POSTs and raises A2AConnectionError naming M+1 attempts.
C14_RetryBudget ==
    /\ a2a.posts <= a2a.max_retries + 1
    /\ A2AResponded =>
          /\ a2a.fails <= a2a.max_retries
          /\ a2a.posts = a2a.fails + 1
          /\ a2a.outcome = HandleResponse(Resp)
    /\ A2AExhausted =>
          /\ a2a.fails = a2a.max_retries + 1
          /\ a2a.posts = a2a.max_retries + 1
          /\ a2a.outcome.kind = "A2AConnectionError"
          /\ a2a.outcome.n = a2a.max_retries + 1
    /\ a2a.pc \in {"post", "sleep"} => a2a.fails <= a2a.max_retries

\* Two timeouts, then a completed result, with max_retries = 2.
C14_Witness ==
    /\ A2AResponded
    /\ a2a.max_retries = 2 /\ a2a.fails = 2 /\ a2a.posts = 3
    /\ a2a.last_exception = "TimeoutException"
    /\ RespCompleted
    /\ a2a.outcome = Return(<<"h", "i">>)

\* C15: the wait after the transient failure of attempt a (a = 0, 1, ...)
\* is 2^a seconds, there is one wait per failure that is retried and none
\* after the final attempt, so an exhausted call with max_retries = M has
\* waited 2^M - 1 seconds in total.
C15_Backoff ==
    /\ \A i \in 1..Len(a2a.sleeps) : a2a.sleeps[i] = 2 ^ (i - 1)
    /\ a2a.pc = "post" \/ A2AResponded => Len(a2a.sleeps) = a2a.fails
    /\ a2a.pc = "sleep" => Len(a2a.sleeps) = a2a.fails - 1
    /\ A2AExhausted =>
          /\ Len(a2a.sleeps) = a2a.max_retries
          /\ SumSeq(a2a.sleeps) = 2 ^ a2a.max_retries - 1

C15_Witness ==
    /\ A2AExhausted
    /\ a2a.max_retries = 2
    /\ a2a.sleeps = <<1, 2>>
    /\ SumSeq(a2a.sleeps) = 3

\* C16: a response that carries a JSON-RPC error member makes the call
\* raise A2ATaskError at once, with no further POST, whatever retry budget
\* is left and also when the envelope carries a result as well.
C16_ErrorFieldNoRetry ==
    (A2AResponded /\ Resp.status_code = HttpOk /\ Resp.json /\ Resp.error # <<>>) =>
        /\ a2a.outcome.kind = "A2ATaskError"
        /\ a2a.outcome.tag = "JSON-RPC error: "
        /\ a2a.outcome.text = Get(Resp.error[1].message, <<"Unknown error">>)
        /\ a2a.posts = a2a.fails + 1

C16_Witness ==
    /\ A2AResponded
    /\ Resp.error # <<>> /\ Resp.result # <<>>
    /\ a2a.fails = 0 /\ a2a.max_retries = 2 /\ a2a.posts = 1
    /\ a2a.outcome.kind = "A2ATaskError"

\* C17 as stated: for a completed response whose first artifact contains at
\* least one text-typed part, the call returns the concatenation, in order,
\* of the text of the text-typed parts of the first artifact only.
C17_FirstArtifactText_AnyText ==
    (RespCompleted /\ \E k \in 1..Len(FirstArtifactParts) :
                         FirstArtifactParts[k].kind = "text") =>
        a2a.outcome = Return(JoinTexts(FirstArtifactParts))

\* C17 (amended): for a completed response in which the text-typed parts of
\* the first artifact concatenate to a non-empty text, the call returns that
\* concatenation; non-text parts, later artifacts and the history do not
\* contribute.
C17_FirstArtifactText ==
    (RespCompleted /\ JoinTexts(FirstArtifactParts) # <<>>) =>
        a2a.outcome = Return(JoinTexts(FirstArtifactParts))

C17_Witness ==
    /\ RespCompleted
    /\ Len(Get(RespResult.artifacts, <<>>)) = 2
    /\ FirstArtifactParts = <<TextPart(<<"h">>), Part("data", <<<<"d">>>>), TextPart(<<"i">>)>>
    /\ LastAgentParts = <<TextPart(<<"i">>), TextPart(<<"h">>)>>
    /\ a2a.outcome = Return(<<"h", "i">>)

\* C18: for a completed response in which no text is found in the artifacts
\* (no artifacts, a first artifact with no parts, or a first artifact whose
\* parts are all non-text) and whose most recent agent-role message in the
\* history has text, the call returns the concatenated text of that message.
C18_FallsBackToHistory ==
    (/\ RespCompleted
     /\ \A k \in 1..Len(FirstArtifactParts) : FirstArtifactParts[k].kind # "text"
     /\ JoinTexts(LastAgentParts) # <<>>) =>
        a2a.outcome = Return(JoinTexts(LastAgentParts))

\* status.message is structured: an object with a non-empty "parts" list.
Structured(msg) == msg.t = "dict" /\ msg.parts # <<>> /\ msg.parts[1] # <<>>

\* C19: a response whose state is failed makes the call raise A2ATaskError
\* with no further POST; the error carries the concatenated text of the
\* text-typed parts of status.message when that message is structured (an
\* object with a non-empty parts list), and the raw status otherwise.
C19_FailedRaisesTaskError ==
    RespFailed =>
        /\ a2a.outcome.kind = "A2ATaskError"
        /\ a2a.outcome.tag = "Task failed: "
        /\ a2a.posts = a2a.fails + 1
        /\ IF Structured(RespStatus.message)
             THEN /\ a2a.outcome.text = JoinTexts(RespStatus.message.parts[1])
                  /\ a2a.outcome.status = <<>>
             ELSE /\ a2a.outcome.text = <<>>
                  /\ a2a.outcome.status = <<RespStatus>>

C19_Witness ==
    /\ RespFailed
    /\ Structured(RespStatus.message)
    /\ a2a.fails = 1 /\ a2a.max_retries = 2 /\ a2a.posts = 2
    /\ a2a.outcome = A2ATaskError("Task failed: ", <<"h", "i">>, <<>>, 0)

\* C20: a response whose state is neither completed nor failed (or that has
\* no state or no status) makes the call return the "did not complete"
\* reply carrying the raw status: no error, no retry, no further POST.
C20_IncompleteReturns ==
    (RespPlain /\ RespStatus.state \notin { <<"completed">>, <<"failed">> }) =>
        /\ a2a.outcome.kind = "return"
        /\ a2a.outcome.tag = "Task did not complete. Status: "
        /\ a2a.outcome.status = <<RespStatus>>
        /\ a2a.posts = a2a.fails + 1
        /\ a2a.sleeps = [i \in 1..a2a.fails |-> 2 ^ (i - 1)]

C20_Witness ==
    /\ RespPlain
    /\ RespStatus.state = <<"pending">>
    /\ a2a.fails = 0 /\ a2a.max_retries = 2 /\ a2a.posts = 1
    /\ a2a.outcome.kind = "return"
    /\ a2a.outcome.status = <<Status(<<"pending">>, NoMessage)>>

\* C21: no silent failure.  For every retry budget, max_retries = 0
\* included, a call_tool() that completes returns the provider's result of a
\* call attempt or raises, and a send_task_async() that completes raises or
\* returns a non-empty text or one of the explicit replies; neither returns
\* an absent or empty result.
C21_NoSilentFailure ==
    /\ Done("call_tool") =>
          \/ ~result.ok
          \/ result.value.kind = "call" /\ st.calls >= 1
    /\ (a2a.pc = "done" /\ a2a.outcome.kind = "return") =>
          \/ a2a.outcome.text # <<>>
          \/ a2a.outcome.tag # "" /\ a2a.outcome.status # <<>>

\* ==================================================================
\* Pure functions: sanitize_tool_name (SpecNorm)
\* ==================================================================
\* A string is the sequence of its characters.
\* The characters of the class [a-zA-Z0-9_-].
NameChars ==
    { "a", "b", "c", "d", "e", "f", "g", "h", "i", "j", "k", "l", "m",
      "n", "o", "p", "q", "r", "s", "t", "u", "v", "w", "x", "y", "z",
      "A", "B", "C", "D", "E", "F", "G", "H", "I", "J", "K", "L", "M",
      "N", "O", "P", "Q", "R", "S", "T", "U", "V", "W", "X", "Y", "Z",
      "0", "1", "2", "3", "4", "5", "6", "7", "8", "9", "_", "-" }

\* Characters the inputs are made of: inside the class and outside it.
Alphabet == { "a", "Z", "7", "_", "-", " ", ".", "é" }

\* A substitution that drops the characters outside the class.
sanitize_tool_name_strip(name) == SelectSeq(name, LAMBDA c : c \in NameChars)

\* `re.sub(r'[^a-zA-Z0-9_-]', '_', name)` (utils.py:14, and inline at
\* tool_integration.py:43).
sanitize_tool_name(name) ==
    [i \in 1..Len(name) |-> IF name[i] \in NameChars THEN name[i] ELSE "_"]

\* Everything the other specifications own, at rest.
Pinned ==
    /\ max_retries = 0
    /\ cache_tools_list = FALSE
    /\ middleware = <<>>
    /\ InitClient
    /\ a2a = A2AIdle

InitNorm ==
    /\ Pinned
    /\ prep = [pc |-> "idle"]
    /\ pure \in { [fn |-> "sanitize_tool_name", n |-> 0, name |-> x, once |-> x, out |-> x] :
                  x \in UNION { [1..k -> Alphabet] : k \in 0..MaxNameLen } }

\* The function is applied to the name, and once more to its own output.
sanitize ==
    /\ pure.n < 2
    /\ pure' = [pure EXCEPT !.n = @ + 1,
                            !.out = sanitize_tool_name(pure.out),
                            !.once = IF pure.n = 0 THEN sanitize_tool_name(pure.name) ELSE @]
    /\ UNCHANGED <<streaming, a2a, prep>>

SpecNorm == InitNorm /\ [][sanitize]_vars

\* C26: sanitize_tool_name is total and idempotent: its output has the
\* length of its input, consists of characters of [A-Za-z0-9_-] only, keeps
\* the characters of that class as they are, and applying it again changes
\* nothing.
C26_NormalizeIdempotent ==
    /\ pure.n >= 1 =>
          /\ Len(pure.once) = Len(pure.name)
          /\ \A i \in 1..Len(pure.once) : pure.once[i] \in NameChars
          /\ \A i \in 1..Len(pure.name) :
                pure.name[i] \in NameChars =>
                   i <= Len(pure.once) /\ pure.once[i] = pure.name[i]
    /\ pure.n = 2 => pure.out = pure.once

C26_Witness ==
    /\ pure.n = 2
    /\ pure.name = <<"a", " ", "é">>
    /\ pure.out = <<"a", "_", "_">>

\* ==================================================================
\* Pure functions: HMACAuth.sign_request (SpecSign)
\* ==================================================================
\* A dict is the sequence of its items [k, v] in insertion order, with
\* distinct keys; a string value is the sequence of its characters.
\* The keys the inputs use, in the order sorted() puts them.
ParamKeys == <<"a", "auth", "b", "c", "d">>

DictKeys(d) == { d[i].k : i \in 1..Len(d) }
Lookup(d, k) == d[CHOOSE i \in 1..Len(d) : d[i].k = k].v

\* `del d[k]`
Del(d, k) == SelectSeq(d, LAMBDA it : it.k # k)

\* `d[k] = v`: an existing key keeps its place, a new one goes last.
Put(d, k, v) ==
    IF k \in DictKeys(d)
      THEN [i \in 1..Len(d) |-> IF d[i].k = k THEN [k |-> k, v |-> v] ELSE d[i]]
      ELSE Append(d, [k |-> k, v |-> v])

\* A sort that leaves the items in insertion order.
sort_keys_unsorted(d) == d

\* `sort_keys=True`: the items of d by ascending key.
sort_keys(d) ==
    LET rank(k) == CHOOSE r \in 1..Len(ParamKeys) : ParamKeys[r] = k
        below(j) == Cardinality({ m \in 1..Len(d) : rank(d[m].k) < rank(d[j].k) })
    IN  [i \in 1..Len(d) |-> d[CHOOSE j \in 1..Len(d) : below(j) = i - 1]]

\* `json.dumps(d, sort_keys=True, separators=(',', ':'))`, the text as a
\* sequence of tokens; `items` are the items still to be written.
RECURSIVE dumps_items(_)
dumps_items(items) ==
    IF items = <<>> THEN <<"}">>
    ELSE <<Head(items).k, ":", "\"">> \o Head(items).v \o <<"\"", ",">>
           \o dumps_items(Tail(items))

dumps(d) == <<"{">> \o dumps_items(sort_keys(d))

\* `base64.b64encode(hmac.new(key, body, sha256).digest())`, taken as
\* collision-free: the signature determines the key and the body.
hmac_b64(key, body) == <<"hmac-sha256", key>> \o body

\* sign_request that removes a stale auth from the caller's dict itself.
sign_request_inplace(key, params) ==
    LET stripped == Del(params, "auth")
        signature == hmac_b64(key, dumps(stripped))
    IN  [params |-> stripped, result |-> Put(stripped, "auth", signature)]

\* sign_request(params) of an HMACAuth with secret `key`: the caller's dict
\* after the call, and the returned dict.
sign_request(key, params) ==
    LET params_copy == IF "auth" \in DictKeys(params) THEN Del(params, "auth") ELSE params
        signature == hmac_b64(key, dumps(params_copy))
    IN  [params |-> params, result |-> Put(params, "auth", signature)]

\* Every dict of at most MaxParams items over the keys and two values.
ParamDicts ==
    { d \in UNION { [1..n -> [k : { ParamKeys[i] : i \in 1..Len(ParamKeys) },
                              v : { <<"1">>, <<"2">> }]] : n \in 0..MaxParams } :
        \A i, j \in 1..Len(d) : d[i].k = d[j].k => i = j }

InitSign ==
    /\ Pinned
    /\ prep = [pc |-> "idle"]
    /\ pure \in { [fn |-> "sign_request", n |-> 0, key |-> key, given |-> d,
                   params |-> d, first |-> <<>>, out |-> <<>>] :
                  key \in {"k1", "k2"}, d \in ParamDicts }

\* sign_request is called on the caller's dict, and then once more.
sign ==
    /\ pure.n < 2
    /\ LET r == sign_request(pure.key, pure.params)
       IN  pure' = [pure EXCEPT !.n = @ + 1, !.params = r.params, !.out = r.result,
                                !.first = IF pure.n = 0 THEN r.result ELSE @]
    /\ UNCHANGED <<streaming, a2a, prep>>

SpecSign == InitSign /\ [][sign]_vars

\* The auth value sign_request gives for a dict.
AuthOf(key, d) == Lookup(sign_request(key, d).result, "auth")

\* The dicts with the items of d in another order.
Reorderings(d) ==
    { [i \in 1..Len(d) |-> d[f[i]]] :
        f \in { g \in [1..Len(d) -> 1..Len(d)] :
                  (\A i, j \in 1..Len(d) : g[i] = g[j] => i = j)
                  /\ (\E i \in 1..Len(d) : g[i] # i) } }

\* C27: sign_request returns a dict whose keys are the keys of params plus
\* auth, with every other value unchanged; a stale auth is overwritten and
\* does not influence the signature (the auth is the one obtained without
\* it), and the caller's dict is not modified.
C27_SignKeepsParams ==
    pure.n >= 1 =>
        /\ DictKeys(pure.first) = DictKeys(pure.given) \cup {"auth"}
        /\ Len(pure.first) = Cardinality(DictKeys(pure.first))
        /\ \A k \in DictKeys(pure.given) \ {"auth"} :
              Lookup(pure.first, k) = Lookup(pure.given, k)
        /\ Lookup(pure.first, "auth") = AuthOf(pure.key, Del(pure.given, "auth"))
        /\ Lookup(pure.first, "auth") = hmac_b64(pure.key, dumps(Del(pure.given, "auth")))
        /\ pure.params = pure.given

C27_Witness ==
    /\ pure.n = 1
    /\ pure.given = <<[k |-> "b", v |-> <<"1">>], [k |-> "auth", v |-> <<"2">>],
                      [k |-> "a", v |-> <<"2">>]>>
    /\ pure.params = pure.given
    /\ Lookup(pure.out, "auth") # <<"2">>
    /\ DictKeys(pure.out) = {"a", "auth", "b"}

\* C28 as stated: signing the same input twice gives the same auth, and
\* removing or reordering keys other than auth before signing changes it.
C28_SignInputSensitive_Reorder ==
    /\ pure.n = 2 => Lookup(pure.out, "auth") = Lookup(pure.first, "auth")
    /\ pure.n >= 1 =>
          /\ \A k \in DictKeys(pure.given) \ {"auth"} :
                AuthOf(pure.key, Del(pure.given, k)) # Lookup(pure.first, "auth")
          /\ \A q \in Reorderings(pure.given) :
                AuthOf(pure.key, q) # Lookup(pure.first, "auth")

\* C28 (amended): signing the same input twice gives the same auth;
\* removing a key other than auth before signing changes the auth, and
\* reordering the keys does not (the signed text has its keys sorted).
C28_SignInputSensitive ==
    /\ pure.n = 2 => Lookup(pure.out, "auth") = Lookup(pure.first, "auth")
    /\ pure.n >= 1 =>
          /\ \A k \in DictKeys(pure.given) \ {"auth"} :
                AuthOf(pure.key, Del(pure.given, k)) # Lookup(pure.first, "auth")
          /\ \A q \in Reorderings(pure.given) :
                AuthOf(pure.key, q) = Lookup(pure.first, "auth")

C28_Witness ==
    /\ pure.n = 2
    /\ pure.given = <<[k |-> "b", v |-> <<"1">>], [k |-> "a", v |-> <<"2">>]>>
    /\ Lookup(pure.out, "auth") = Lookup(pure.first, "auth")
    /\ Lookup(pure.out, "auth") =
          AuthOf(pure.key, <<[k |-> "a", v |-> <<"2">>], [k |-> "b", v |-> <<"1">>]>>)
    /\ Lookup(pure.out, "auth") # AuthOf(pure.key, <<[k |-> "a", v |-> <<"2">>]>>)

\* C29: whenever the client, between operations, holds a session handle,
\* the session behind the handle is entered and not exited (its transport
\* with it, initialization done), and once cleanup() has returned the handle
\* is absent, also when the teardown raised.
C29_HandleMeansLiveSession ==
    /\ (frames = <<>> /\ session # 0) =>
          /\ SessionLive
          /\ \E k \in 1..Len(exit_stack) :
                exit_stack[k] = [kind |-> "transport", id |-> session]
    /\ Done("cleanup") => session = 0

\* C30: whenever connect() or call_tool() ends by exhausting its retries,
\* the client holds no session handle and no open transport or session (so
\* that a following list_tools() raises the not-initialized error).
C30_ExhaustedMeansDisconnected ==
    /\ (Done("connect") /\ ~result.ok) => session = 0 /\ exit_stack = <<>>
    /\ (Done("call_tool") /\ ~result.ok /\ st.mw_fail = 0) =>
          session = 0 /\ exit_stack = <<>>

\* ==================================================================
\* Tool preparation: filtered_prepare_dynamic_tools (SpecPrep)
\* ==================================================================
\* `fnmatch.fnmatch(name, pat)` on character sequences: `*` stands for any
\* run of characters, `?` for one character.
RECURSIVE fnmatch(_, _)
fnmatch(name, pat) ==
    IF pat = <<>> THEN name = <<>>
    ELSE IF Head(pat) = "*"
      THEN fnmatch(name, Tail(pat)) \/ (name # <<>> /\ fnmatch(Tail(name), pat))
    ELSE /\ name # <<>>
         /\ Head(pat) = "?" \/ Head(pat) = Head(name)
         /\ fnmatch(Tail(name), Tail(pat))

\* A discovered tool or skill: its "name" and "id" keys (<<>> when absent).
Tool(name, id) == [name |-> name, id |-> id]

\* The providers handed to prepare: streaming ("mcp") and stateless ("a2a")
\* ones, with the tools their list_tools() discovers.
Providers ==
    LET list_pods == <<"l", "i", "s", "t", "_", "p", "o", "d", "s">>
        describe_node == <<"d", "e", "s", "c", "r", "i", "b", "e", "_", "n", "o", "d", "e">>
        delete_pod == <<"d", "e", "l", "e", "t", "e", "_", "p", "o", "d">>
        P(n, t, tools) == [name |-> n, type |-> t, tools |-> tools]
    IN  { P("k8s", "mcp", <<Tool(<<list_pods>>, <<>>), Tool(<<describe_node>>, <<>>),
                            Tool(<<delete_pod>>, <<>>)>>),
          P("flux", "mcp", <<Tool(<<list_pods>>, <<>>)>>),
          P("agent", "a2a", <<Tool(<<delete_pod>>, <<>>), Tool(<<list_pods>>, <<>>)>>),
          P("agent", "a2a", <<Tool(<<<<"a", " ", "b">>>>, <<>>), Tool(<<<<"a", ".", "b">>>>, <<>>)>>),
          P("helper", "a2a", <<Tool(<<>>, <<<<"i", "d", "1">>>>)>>),
          P("helper", "a2a", <<Tool(<<>>, <<>>)>>) }

\* allowed_tools_map: provider name -> list of patterns, <<>> when the
\* provider has no entry.
AllowedMaps ==
    LET list_any == <<"l", "i", "s", "t", "_", "*">>
        describe_any == <<"d", "e", "s", "c", "r", "i", "b", "e", "_", "*">>
        M(k8s, flux, agent, helper) ==
            [k8s |-> k8s, flux |-> flux, agent |-> agent, helper |-> helper]
    IN  { M(<<>>, <<>>, <<>>, <<>>),
          M(<<<<list_any, describe_any>>>>, <<>>, <<<<list_any>>>>, <<>>),
          M(<<<<>>>>, <<<<list_any>>>>, <<>>, <<>>) }

InitPrep ==
    /\ Pinned
    /\ pure = [fn |-> "none"]
    /\ prep \in { [pc |-> "loop", servers |-> ss, allowed |-> am, i |-> 1, j |-> 1,
                   tools |-> <<>>, prepared |-> <<>>, skipped |-> <<>>,
                   cause |-> "none", invoked |-> <<>>, sends |-> <<>>] :
                  ss \in UNION { [1..n -> Providers] : n \in 1..MaxServers },
                  am \in AllowedMaps }

Server == prep.servers[prep.i]

\* Lines 54-56: the indices of the discovered tools that pass the
\* provider's patterns; every index when the provider has no entry.
Filtered(tools, allowed) ==
    SelectSeq([k \in 1..Len(tools) |-> k],
              LAMBDA k : \/ allowed = <<>>
                         \/ \E q \in 1..Len(allowed[1]) :
                               fnmatch(tools[k].name[1], allowed[1][q]))

\* Line 43: `re.sub(..., skill.get("name", skill.get("id", "unknown_skill")))`
SkillName(skill) ==
    sanitize_tool_name(
        Get(skill.name, Get(skill.id,
            <<"u", "n", "k", "n", "o", "w", "n", "_", "s", "k", "i", "l", "l">>)))

\* A prepared tool: its name, the provider its invocation dispatches to,
\* and (for the properties) the provider and discovered tool it was made of.
Prepared(name, kind, owner, k) ==
    [name |-> name, kind |-> kind, owner |-> owner, from |-> <<prep.i, k>>]

\* `await server.list_tools()` of the next provider (lines 20-25, 53-56);
\* the call may raise, which ends prepare.
prep_list_tools ==
    /\ prep.pc = "loop"
    /\ prep.i <= Len(prep.servers)
    /\ \/ prep' = [prep EXCEPT !.pc = "raised", !.cause = "list_tools"]
       \/ /\ Server.type = "a2a"
          /\ prep' = [prep EXCEPT !.pc = "skill", !.j = 1,
                        !.tools = [k \in 1..Len(Server.tools) |-> k]]
       \/ /\ Server.type = "mcp"
          /\ prep' = [prep EXCEPT !.pc = "convert", !.j = 1,
                        !.tools = Filtered(Server.tools, prep.allowed[Server.name])]
    /\ UNCHANGED <<streaming, a2a, pure>>

\* Lines 28-51: the next skill is wrapped (FunctionTool, then
\* _create_decorated_tool) and appended; a failure of the wrapping is not
\* caught.  After the last skill: `continue`.
prep_skill ==
    /\ prep.pc = "skill"
    /\ IF prep.j > Len(prep.tools)
         THEN prep' = [prep EXCEPT !.pc = "loop", !.i = @ + 1]
         ELSE \/ prep' = [prep EXCEPT !.j = @ + 1,
                            !.prepared = Append(@,
                                Prepared(SkillName(Server.tools[prep.tools[prep.j]]),
                                         "a2a", prep.i, prep.tools[prep.j]))]
              \/ prep' = [prep EXCEPT !.pc = "raised", !.cause = "wrap"]
    /\ UNCHANGED <<streaming, a2a, pure>>

\* Line 58: every filtered tool is converted by MCPUtil.to_function_tool
\* before any is decorated; a failure is not caught.
prep_convert ==
    /\ prep.pc = "convert"
    /\ IF prep.j > Len(prep.tools)
         THEN prep' = [prep EXCEPT !.pc = "decorate", !.j = 1]
         ELSE \/ prep' = [prep EXCEPT !.j = @ + 1]
              \/ prep' = [prep EXCEPT !.pc = "raised", !.cause = "wrap"]
    /\ UNCHANGED <<streaming, a2a, pure>>

\* Lines 59-64: the next converted tool is decorated and appended; a
\* failure is caught, logged, and the tool is skipped.
prep_decorate ==
    /\ prep.pc = "decorate"
    /\ IF prep.j > Len(prep.tools)
         THEN prep' = [prep EXCEPT !.pc = "loop", !.i = @ + 1]
         ELSE \/ prep' = [prep EXCEPT !.j = @ + 1,
                            !.prepared = Append(@,
                                Prepared(Server.tools[prep.tools[prep.j]].name[1],
                                         "mcp", prep.i, prep.tools[prep.j]))]
              \/ prep' = [prep EXCEPT !.j = @ + 1,
                            !.skipped = Append(@, <<prep.i, prep.tools[prep.j]>>)]
    /\ UNCHANGED <<streaming, a2a, pure>>

\* Line 65: `return prepared_tools`
prep_return ==
    /\ prep.pc = "loop"
    /\ prep.i > Len(prep.servers)
    /\ prep' = [prep EXCEPT !.pc = "returned"]
    /\ UNCHANGED <<streaming, a2a, pure>>

\* on_invoke_tool that reads `server` when it is called: the variable then
\* holds the last provider of the loop.
prep_invoke_last ==
    /\ prep.pc = "returned"
    /\ \E k \in 1..Len(prep.prepared), input \in { <<>>, <<[prompt |-> <<>>]>>,
                                                 <<[prompt |-> <<"hi">>]>> } :
          /\ prep.prepared[k].kind = "a2a"
          /\ prep' = [prep EXCEPT !.pc = "invoked",
                        !.invoked = <<[tool |-> k, input |-> input]>>,
                        !.sends = Append(@, [server |-> Len(prep.servers),
                                             user_text |-> Get(Get(input, [prompt |-> <<>>]).prompt, "")])]
    /\ UNCHANGED <<streaming, a2a, pure>>

\* Lines 37-41: a prepared skill is invoked with input_json (empty, `{}`
\* or with a prompt): `args.get("prompt", "")` goes to send_task_async of
\* the provider bound as `_server` when the tool was wrapped.
prep_invoke ==
    /\ prep.pc = "returned"
    /\ \E k \in 1..Len(prep.prepared), input \in { <<>>, <<[prompt |-> <<>>]>>,
                                                 <<[prompt |-> <<"hi">>]>> } :
          /\ prep.prepared[k].kind = "a2a"
          /\ prep' = [prep EXCEPT !.pc = "invoked",
                        !.invoked = <<[tool |-> k, input |-> input]>>,
                        !.sends = Append(@, [server |-> prep.prepared[k].owner,
                                             user_text |-> Get(Get(input, [prompt |-> <<>>]).prompt, "")])]
    /\ UNCHANGED <<streaming, a2a, pure>>

NextPrep == prep_list_tools \/ prep_skill \/ prep_convert \/ prep_decorate
               \/ prep_return \/ prep_invoke

SpecPrep == InitPrep /\ [][NextPrep]_vars

\* The k-th discovered tool of provider i passes the allow-list: the
\* provider has no entry, or the tool's name matches one of its patterns.
Passes(i, k) ==
    LET server == prep.servers[i]
        allowed == prep.allowed[server.name]
        name == Get(server.tools[k].name, Get(server.tools[k].id, <<>>))
    IN  \/ allowed = <<>>
        \/ \E q \in 1..Len(allowed[1]) : fnmatch(name, allowed[1][q])

IsPrepared(i, k) == \E t \in 1..Len(prep.prepared) : prep.prepared[t].from = <<i, k>>

\* C22: for every provider of either kind, a discovered tool or skill is in
\* the result of prepare if and only if the provider has no entry in the
\* allow-list map or the tool's name matches one of the entry's patterns
\* (stated for runs in which no wrapping failed).
C22_FilterAppliesToAll ==
    (prep.pc = "returned" /\ prep.skipped = <<>>) =>
        \A i \in 1..Len(prep.servers) :
           \A k \in 1..Len(prep.servers[i].tools) :
              IsPrepared(i, k) <=> Passes(i, k)

\* C23: a wrapping failure for one tool or skill of any provider, at any
\* wrapping step, never ends prepare with an error, and the result holds
\* every tool that passes the streaming filter and was not the failing one.
C23_WrappingFailureIsolated ==
    /\ prep.pc = "raised" => prep.cause = "list_tools"
    /\ prep.pc = "returned" =>
          \A i \in 1..Len(prep.servers) :
             \A k \in 1..Len(prep.servers[i].tools) :
                (/\ prep.servers[i].type = "mcp" => Passes(i, k)
                 /\ \A f \in 1..Len(prep.skipped) : prep.skipped[f] # <<i, k>>)
                   => IsPrepared(i, k)

\* C24: the list returned by prepare never holds two prepared tools of the
\* same name.
C24_PreparedNamesDistinct ==
    prep.pc = "returned" =>
        \A a, b \in 1..Len(prep.prepared) :
           prep.prepared[a].name = prep.prepared[b].name => a = b

\* C25: invoking a prepared tool made of a stateless provider's skill
\* issues exactly one send_task_async, on the provider that discovered the
\* skill, with user_text equal to the prompt of the invocation arguments
\* (the empty string when there is none).
C25_InvokeDispatchesToOwner ==
    prep.pc = "invoked" =>
        LET tool == prep.prepared[prep.invoked[1].tool]
            input == prep.invoked[1].input
        IN  /\ Len(prep.sends) = 1
            /\ prep.sends[1].server = tool.from[1]
            /\ prep.servers[prep.sends[1].server].type = "a2a"
            /\ (input # <<>> /\ input[1].prompt # <<>>) =>
                   prep.sends[1].user_text = input[1].prompt[1]
            /\ (input = <<>> \/ input[1].prompt = <<>>) => prep.sends[1].user_text = ""

C25_Witness ==
    /\ prep.pc = "invoked"
    /\ Len(prep.servers) = 2
    /\ prep.servers[1].type = "a2a" /\ prep.servers[2].type = "a2a"
    /\ prep.servers[1].name # prep.servers[2].name
    /\ prep.prepared[prep.invoked[1].tool].from = <<1, 1>>
    /\ Len(prep.servers[1].tools) = 2
    /\ prep.sends = <<[server |-> 1, user_text |-> "hi"]>>

\* ==================================================================
\* Retry, middleware and abandonment of the streaming client
\* ==================================================================
\* C31: in connect(), once an attempt has failed, everything it opened has
\* been released when cleanup() has returned, during the retry sleep, when
\* the next attempt starts and when connect() fails; while a later attempt
\* runs, only what that attempt itself has opened is open.
C31_FailedAttemptReleased ==
    /\ (frames # <<>> /\ Top.fn = "connect" /\ Top.last_exc # NoErr) =>
          /\ Top.pc \in {"cleaned", "sleep", "loop", "open"} => exit_stack = <<>>
          /\ Top.pc = "session" =>
                exit_stack = <<[kind |-> "transport", id |-> Top.hs]>>
          /\ Top.pc = "initialize" =>
                exit_stack = <<[kind |-> "transport", id |-> Top.hs],
                               [kind |-> "session", id |-> Top.hs]>>
    /\ (Done("connect") /\ ~result.ok /\ st.hs_fail >= 1) => exit_stack = <<>>

\* The first attempt failed in initialize(), with a transport and a session
\* entered; the second attempt starts with nothing open.
C31_Witness ==
    /\ Running("connect", "open")
    /\ Top.attempt = 2
    /\ Top.last_exc = Err("InitializeError", 1)
    /\ st.cleanups = 1
    /\ exit_stack = <<>>

\* C32: in one call_tool() the middleware steps run in configured order,
\* each at most once and all of them once the call gets to its attempts,
\* each on the output of the one before; a retry runs none of them again,
\* and every attempt sends the same arguments: the original ones (<<>>)
\* transformed by every step in order.
C32_MiddlewareOncePerCall ==
    ((frames # <<>> /\ frames[1].fn = "call_tool") \/ Done("call_tool")) =>
        /\ Len(st.mw) <= Len(middleware)
        /\ \A k \in 1..Len(st.mw) : st.mw[k] = middleware[k]
        /\ st.mw_fail = 0 /\ (Done("call_tool") \/ st.sent # <<>>) => st.mw = middleware
        /\ \A k \in 1..Len(st.sent) : st.sent[k] = middleware

\* Two steps, a failed first attempt and a second one that succeeds.
C32_Witness ==
    /\ Done("call_tool") /\ result.ok
    /\ middleware = <<1, 2>>
    /\ st.mw = <<1, 2>>
    /\ st.calls = 2 /\ st.reconnects = 1
    /\ st.sent = << <<1, 2>>, <<1, 2>> >>
    /\ result.value.args = <<1, 2>>

\* C36: when the reconnect that call_tool() awaits after a failed call
\* attempt raises, it has made max_retries handshake attempts, call
\* attempts are still left, and the very next step ends call_tool() with
\* the connect error: no further call attempt, handshake or cleanup.
C36_ReconnectFailureEndsCall ==
    [][ (Running("call_tool", "reconnected") /\ raised # NoErr) =>
          /\ raised.type \in HandshakeErrors
          /\ raised.id = max_retries
          /\ Top.attempt < max_retries
          /\ frames' = <<>>
          /\ result' = [op |-> "call_tool", ok |-> FALSE, value |-> NoneVal,
                        error |-> raised]
          /\ st' = st ]_vars

\* max_retries = 2 on a connected client: the first call attempt fails,
\* both handshake attempts of the reconnect fail, and call_tool() has
\* ended with the error of the second handshake after one call attempt.
C36_Witness ==
    /\ Done("call_tool") /\ ~result.ok
    /\ max_retries = 2
    /\ pre.session # 0
    /\ st.calls = 1 /\ st.call_fail = 1 /\ st.reconnects = 1
    /\ st.hs = 2 /\ st.hs_fail = 2
    /\ result.error = Err("InitializeError", 2)

\* ==================================================================
\* Abandoned operations (SpecCancel)
\* ==================================================================
\* The caller is suspended in an await: entering the transport or the
\* session, initialize(), a retry sleep, a middleware step, the underlying
\* call, the fetch of list_tools(), or the __aexit__ of the newest entered
\* context manager inside aclose().
Suspended ==
    /\ frames # <<>>
    /\ \/ Top.fn = "connect" /\ Top.pc \in {"open", "session", "initialize", "sleep"}
       \/ Top.fn = "call_tool" /\ Top.pc \in {"call", "sleep"}
       \/ Top.fn = "call_tool" /\ Top.pc = "middleware" /\ Top.i < Len(middleware)
       \/ Top.fn = "list_tools" /\ Top.pc = "fetch"
       \/ Top.fn = "cleanup" /\ Top.pc = "aclose" /\ exit_stack # <<>>

\* The operation ends with CancelledError: it is no Exception, so no
\* `except Exception` of the chain catches it and no handler cleans up.
Abandon ==
    /\ frames' = <<>>
    /\ raised' = Err("CancelledError", 0)
    /\ result' = [op |-> frames[1].fn, ok |-> FALSE, value |-> NoneVal,
                  error |-> Err("CancelledError", 0)]

\* The caller cancels the task (task.cancel()): CancelledError is thrown
\* into the innermost coroutine at its await.  Outside cleanup() the whole
\* chain ends at once: what was entered stays on the exit stack and
\* self.session keeps its value.  Inside aclose() the __aexit__ that was
\* running ends with CancelledError and the exit stack goes on to exit the
\* remaining context managers, the lock still held.
cancel ==
    /\ Suspended
    /\ IF Top.fn = "cleanup"
         THEN /\ exit_stack' = SubSeq(exit_stack, 1, Len(exit_stack) - 1)
              /\ frames' = SetTop([Top EXCEPT !.cancelled = TRUE])
              /\ UNCHANGED <<raised, result, st, hist>>
         ELSE /\ Abandon
              /\ IF Top.fn = "list_tools"
                   THEN /\ st' = [st EXCEPT !.fetches = @ + 1]
                        /\ ListFinished(FALSE)
                   ELSE UNCHANGED <<st, hist>>
              /\ UNCHANGED exit_stack
    /\ UNCHANGED <<cfg, ext, session, cleanup_lock, cache_dirty, tools_list, pre>>

\* aclose() has exited everything and raises the CancelledError: `except
\* Exception` (line 170) does not catch it, `async with` releases the lock,
\* `self.session = None` is skipped, and the awaiting connect() or
\* call_tool() does not catch it either.
cleanup_cancelled ==
    /\ Running("cleanup", "aclose")
    /\ exit_stack = <<>>
    /\ Top.cancelled
    /\ cleanup_lock' = FALSE
    /\ hist' = [hist EXCEPT !.cleaned = hist.ever]
    /\ Abandon
    /\ UNCHANGED <<cfg, ext, session, exit_stack, cache_dirty, tools_list, st, pre>>

NextCancel == Next \/ cancel \/ cleanup_cancelled

SpecCancel == Init /\ [][NextCancel]_vars

\* C33: when a connect() or call_tool() was abandoned at one of its awaits,
\* the cleanup() that follows and returns leaves no open transport, no open
\* session and no session handle.
C33_CancelThenCleanupReleases ==
    (Done("cleanup") /\ result.ok /\ pre.cancelled) =>
        /\ OpenTransports = 0
        /\ OpenSessions = 0
        /\ session = 0

\* ==================================================================
\* One response per send_task_async (SpecA2A)
\* ==================================================================
\* C34: as soon as a POST has been answered, whatever the answer (a result
\* envelope, an error member, a body that does not parse, a status other
\* than 200), the call is over: that POST was the last one, every POST
\* before it failed transiently, the outcome is what that one response
\* makes of it, whatever failed before, and a body that does not parse
\* raises A2AConnectionError without a retry.
C34_OneResponseOneOutcome ==
    a2a.pc # "idle" /\ a2a.resp # <<>> =>
        /\ a2a.pc = "done"
        /\ a2a.posts = a2a.fails + 1
        /\ a2a.outcome = HandleResponse(Resp)
        /\ (Resp.status_code = HttpOk /\ ~Resp.json) =>
              a2a.outcome =
                  A2AConnectionError("Invalid JSON response from task endpoint: ", 0)

\* A connection error, then a 200 answer whose body does not parse, with
\* one retry still left.
C34_Witness ==
    /\ A2AResponded
    /\ Resp.status_code = HttpOk /\ ~Resp.json
    /\ a2a.max_retries = 2 /\ a2a.fails = 1 /\ a2a.posts = 2
    /\ a2a.last_exception = "ConnectError"
    /\ a2a.sleeps = <<1>>
    /\ a2a.outcome.kind = "A2AConnectionError"

\* C37: a response whose status code is not 200 makes the call raise
\* A2ATaskError carrying that code at once, 5xx included and whatever
\* retries are left: no sleep and no POST follow it.  Only transient
\* transport errors use up the budget: the attempt counter, the sleeps and
\* the POSTs beyond the first are one per transient failure.
C37_Non200NeverRetried ==
    /\ (A2AResponded /\ Resp.status_code # HttpOk) =>
          /\ a2a.outcome =
                A2ATaskError("Task request failed: ", <<>>, <<>>, Resp.status_code)
          /\ a2a.posts = a2a.fails + 1
          /\ Len(a2a.sleeps) = a2a.fails
          /\ a2a.attempt = a2a.fails
    /\ a2a.pc \in {"post", "sleep", "done"} =>
          /\ a2a.attempt = Len(a2a.sleeps)
          /\ Len(a2a.sleeps) <= a2a.fails
          /\ a2a.posts <= a2a.fails + 1
          /\ a2a.fails > 0 => a2a.last_exception \in TransientErrors

\* A 500 on the first POST with two retries left.
C37_Witness ==
    /\ A2AResponded
    /\ Resp.status_code = 500
    /\ a2a.max_retries = 2 /\ a2a.fails = 0 /\ a2a.posts = 1
    /\ a2a.sleeps = <<>>
    /\ a2a.outcome.kind = "A2ATaskError" /\ a2a.outcome.n = 500

\* C35: for a completed response in which the code gets to the history (no
\* artifact, or a first artifact without parts), the call returns the text
\* of the most recent agent-role message of the history; when that message
\* has no text it returns one of the two fixed replies, and when the
\* history has no agent-role message it returns "Task completed but no
\* response found".  An older agent message or a user message is never
\* the source of the text.
C35_HistoryMostRecentAgent ==
    (RespCompleted /\ FirstArtifactParts = <<>>) =>
        LET history == Get(RespResult.history, <<>>)
        IN  IF JoinTexts(LastAgentParts) # <<>>
              THEN a2a.outcome = Return(JoinTexts(LastAgentParts))
            ELSE IF \A k \in 1..Len(history) : history[k].role # "agent"
              THEN a2a.outcome = Return(NoResponseFound)
            ELSE a2a.outcome \in {Return(NoResponseFound), Return(NoTextContent)}

====
